---- MODULE Spec2Model ----
(***************************************************************************)
(* Model of src/Azure.py: the Telegram -> Azure OpenAI -> Google Sheets    *)
(* job-sheet pipeline.  main() is a sequential coroutine; its position is  *)
(* pc.  The collaborators (Telegram, the structured LLM client, gspread)   *)
(* are the environment: each of their answers is drawn with \E in the      *)
(* action that asks for it.                                                *)
(***************************************************************************)
EXTENDS Integers, Sequences, FiniteSets, TLC

(* ---------------------------------------------------------------- bounds *)
\* Number of entries of CREDENTIALS_FILES the model runs with.
NumCredentials == 2
\* Number of entries of CHANNELS the model runs with.
NumChannels == 2
\* Longest channel history Telegram holds for one channel.
MaxHist == 2
\* Most messages dealt with in one run: calls of process_message (replayed and
\* live together) plus updates that arrive while no handler is registered.
MaxCalls == 2

(* ------------------------------------------------------- configuration *)
CHANNELS == [i \in 1..NumChannels |-> i]
CREDENTIALS_FILES == [i \in 1..NumCredentials |-> i]

\* Python's None, as held by an Optional[str] field.
None == "None"

\* Instants: start_of_day is midnight (UTC) of the day main() runs; the
\* instants of the model are one before it, midnight itself, and one after.
start_of_day == 1
Dates == {start_of_day - 1, start_of_day, start_of_day + 1}
\* The instant a live event carries.
LiveDate == start_of_day + 1
\* msg.message / event.raw_text: empty for a media-only post.
Texts == {"", "hiring"}

(* ------------------------------------------------------------ JobDetails *)
JobDetails(company_name, job_role, ctc, years_of_experience, passout_year, application_link) ==
    [company_name |-> company_name, job_role |-> job_role, ctc |-> ctc,
     years_of_experience |-> years_of_experience, passout_year |-> passout_year,
     application_link |-> application_link]

\* What structured_client.invoke may hand back: a parsed JobDetails.  The two
\* str fields are never None; the Optional[str] fields may be.
Responses ==
    { JobDetails("", "", "", "", "", ""),
      JobDetails("", "", None, "2 years", "2024", None),
      JobDetails("", "", "10 LPA", None, None, ""),
      JobDetails("Acme Corp", "SDE", "12 LPA", "2 years", "2024", "acme.co/jobs") }

\* A call either returns a value or raises.
Returned(v) == [raised |-> FALSE, value |-> v]
Raised == [raised |-> TRUE, value |-> None]
InvokeOutcomes == {Raised} \cup {Returned(r) : r \in Responses}

\* JobDetails(company_name="", job_role="", ctc="", application_link=""):
\* years_of_experience and passout_year are Optional[str] = Field(description=...)
\* with no default.  Under pydantic 1 such a field defaults to None; under
\* pydantic 2 it is required and the constructor raises ValidationError.
FallbackJobDetailsV1 == Returned(JobDetails("", "", "", None, None, ""))
FallbackJobDetails(build) ==
    IF build = "v1" THEN FallbackJobDetailsV1 ELSE Raised

\* extract_job_details: the response on success, the fallback constructor's
\* outcome when invoke raised (the constructor runs inside the except block,
\* so its own exception leaves the function).
extract_job_details(invoke, build) ==
    IF invoke.raised THEN FallbackJobDetails(build) ELSE invoke

\* Python truthiness of an Optional[str].
Truthy(v) == v \notin {"", None}

\* Variant: the test looks at all six fields.
AnyOfSixFields(jd) ==
    \/ Truthy(jd.company_name) \/ Truthy(jd.job_role) \/ Truthy(jd.ctc)
    \/ Truthy(jd.years_of_experience) \/ Truthy(jd.passout_year)
    \/ Truthy(jd.application_link)

\* any([company_name, job_role, ctc, application_link])
AnyDesignated(jd) ==
    \/ Truthy(jd.company_name) \/ Truthy(jd.job_role)
    \/ Truthy(jd.ctc) \/ Truthy(jd.application_link)

\* A column order that differs from the source's: the link moved to the front.
RowOfLinkFirst(data) ==
    << data.application_link, data.company_name, data.job_role, data.ctc,
       data.years_of_experience, data.passout_year >>

\* The list handed to sheet.append_row.
RowOf(data) ==
    << data.company_name, data.job_role, data.ctc,
       data.years_of_experience, data.passout_year, data.application_link >>

(* ------------------------------------------------------------- variables *)
VARIABLES
    pc,               \* position of main()
    pydantic,         \* the installed pydantic major version ("v1" / "v2")
    credIdx,          \* index of the for loop over CREDENTIALS_FILES
    sheets,           \* main's list `sheets`
    connectLog,       \* every connect_to_google_sheet call: [cred, ok]
    chanIdx,          \* index of the for loop over CHANNELS
    channel_entities, \* main's list `channel_entities`
    resolveLog,       \* every get_entity call: [channel, ok]
    replayIdx,        \* index of the for loop over channel_entities
    history,          \* the history Telegram holds for the channel being replayed
    scan,             \* what iter_messages has still to yield
    replayStatus,     \* per channel: "none", "scanning", "completed",
                      \* "fetch_error", "process_error"
    scanCount,        \* per channel: iter_messages calls made for it
    sheetRows,        \* per credential: the rows of its sheet
    rowSrc,           \* per credential: for each row, the message it came from
    appendErrors,     \* per credential: "Failed to append" lines logged
    callCount,        \* number of process_message calls so far
    lastCall,         \* the latest process_message call: its inputs and outcome
    listener,         \* new_message_listener is registered
    unhandled,        \* channels with a text message posted after their replay
                      \* ended, while no handler was registered
    exitReason        \* why main() ended

vars == << pc, pydantic, credIdx, sheets, connectLog, chanIdx, channel_entities,
           resolveLog, replayIdx, history, scan, replayStatus, scanCount, sheetRows,
           rowSrc, appendErrors, callCount, lastCall, listener, unhandled, exitReason >>

Range(f) == {f[i] : i \in DOMAIN f}

(* ------------------------------------------------------ Telegram history *)
\* A channel's history: messages in id order, dates never decreasing.
HistoriesOfLen(n) ==
    { [i \in 1..n |-> [id |-> i, date |-> g[i][1], message |-> g[i][2]]] :
        g \in { f \in [1..n -> Dates \X Texts] :
                  \A i \in 1..(n - 1) : f[i][1] <= f[i + 1][1] } }
Histories == UNION { HistoriesOfLen(n) : n \in 0..MaxHist }

Reverse(s) == [i \in 1..Len(s) |-> s[Len(s) + 1 - i]]

\* client_telegram.iter_messages(entity, offset_date=d, reverse=r): without
\* reverse, the messages before d, newest first; with reverse, the messages
\* after d, oldest first.  Whether a message dated exactly d is among them is
\* Telegram's choice (atBoundary).
iter_messages(hist, offset_date, reverse, atBoundary) ==
    LET After(m) == m.date > offset_date \/ (atBoundary /\ m.date = offset_date)
        Before(m) == m.date < offset_date \/ (atBoundary /\ m.date = offset_date)
    IN IF reverse THEN SelectSeq(hist, After)
       ELSE Reverse(SelectSeq(hist, Before))

\* Variant: reverse=True is left out.
ReplayQueryNewestFirst(hist, atBoundary) == iter_messages(hist, start_of_day, FALSE, atBoundary)

\* The call main() makes (offset_date=start_of_day, reverse=True).
ReplayQuery(hist, atBoundary) == iter_messages(hist, start_of_day, TRUE, atBoundary)

RECURSIVE CountText(_)
CountText(s) ==
    IF s = << >> THEN 0
    ELSE (IF Truthy(Head(s).message) THEN 1 ELSE 0) + CountText(Tail(s))

(* --------------------------------------------------------------- fan-out *)
\* append_to_google_sheets: for sheet in sheets: try append_row / except log.
\* st carries the sheets' rows, the error lines logged, the sinks attempted in
\* this call and the list object `sheets` itself.
\* Variant: the try/except sits around the whole loop, so the first failing
\* append_row ends the fan-out.
RECURSIVE AppendLoopStopAtFailure(_, _, _, _, _)
AppendLoopStopAtFailure(i, shs, data, failing, st) ==
    IF i > Len(shs) THEN st
    ELSE LET sheet == shs[i] IN
         IF sheet \in failing
         THEN [st EXCEPT !.errors[sheet] = @ + 1,
                         !.attempted = Append(@, sheet)]
         ELSE AppendLoopStopAtFailure(i + 1, shs, data, failing,
                  [st EXCEPT !.rows[sheet] = Append(@, RowOf(data)),
                             !.attempted = Append(@, sheet)])

\* Variant: the except branch also removes the failing sheet from `sheets`.
RECURSIVE AppendLoopDropFailed(_, _, _, _, _)
AppendLoopDropFailed(i, shs, data, failing, st) ==
    IF i > Len(shs) THEN st
    ELSE LET sheet == shs[i] IN
         IF sheet \in failing
         THEN AppendLoopDropFailed(i + 1, shs, data, failing,
                  [st EXCEPT !.errors[sheet] = @ + 1,
                             !.attempted = Append(@, sheet),
                             !.sheets = SelectSeq(@, LAMBDA x : x # sheet)])
         ELSE AppendLoopDropFailed(i + 1, shs, data, failing,
                  [st EXCEPT !.rows[sheet] = Append(@, RowOf(data)),
                             !.attempted = Append(@, sheet)])

\* Variant: the row is inserted at the top of the sheet instead of after the
\* last row.
RECURSIVE AppendLoopInsertAtTop(_, _, _, _, _)
AppendLoopInsertAtTop(i, shs, data, failing, st) ==
    IF i > Len(shs) THEN st
    ELSE LET sheet == shs[i] IN
         IF sheet \in failing
         THEN AppendLoopInsertAtTop(i + 1, shs, data, failing,
                  [st EXCEPT !.errors[sheet] = @ + 1,
                             !.attempted = Append(@, sheet)])
         ELSE AppendLoopInsertAtTop(i + 1, shs, data, failing,
                  [st EXCEPT !.rows[sheet] = << RowOf(data) >> \o @,
                             !.attempted = Append(@, sheet)])

RECURSIVE AppendLoop(_, _, _, _, _)
AppendLoop(i, shs, data, failing, st) ==
    IF i > Len(shs) THEN st
    ELSE LET sheet == shs[i] IN
         IF sheet \in failing
         THEN AppendLoop(i + 1, shs, data, failing,
                  [st EXCEPT !.errors[sheet] = @ + 1,
                             !.attempted = Append(@, sheet)])
         ELSE AppendLoop(i + 1, shs, data, failing,
                  [st EXCEPT !.rows[sheet] = Append(@, RowOf(data)),
                             !.attempted = Append(@, sheet)])

append_to_google_sheets(shs, data, failing, st) == AppendLoop(1, shs, data, failing, st)

\* process_message: extract, then append iff any designated field is truthy.
\* An exception leaving extract_job_details leaves process_message too.
process_message(message_text, shs, invoke, failing, build, st) ==
    LET r == extract_job_details(invoke, build) IN
    IF r.raised
    THEN [raised |-> TRUE, job_details |-> None, appended |-> FALSE, st |-> st]
    ELSE IF AnyDesignated(r.value)
         THEN [raised |-> FALSE, job_details |-> r.value, appended |-> TRUE,
               st |-> append_to_google_sheets(shs, r.value, failing, st)]
         ELSE [raised |-> FALSE, job_details |-> r.value, appended |-> FALSE,
               st |-> st]

(* ------------------------------------------------------------------ Init *)
Statuses == {"none", "scanning", "completed", "fetch_error", "process_error"}

NoMessage == [id |-> 0, date |-> 0, message |-> ""]
NoCall == [src |-> "none", channel |-> 0, msg |-> NoMessage, invoke |-> Raised,
           failing |-> {}, raised |-> FALSE, appended |-> FALSE,
           job_details |-> None, attempted |-> << >>,
           rowsBefore |-> [s \in Range(CREDENTIALS_FILES) |-> 0],
           errorsBefore |-> [s \in Range(CREDENTIALS_FILES) |-> 0]]

Init ==
    /\ pc = "start"
    /\ pydantic \in {"v1", "v2"}
    /\ credIdx = 1
    /\ sheets = << >>
    /\ connectLog = << >>
    /\ chanIdx = 1
    /\ channel_entities = << >>
    /\ resolveLog = << >>
    /\ replayIdx = 1
    /\ history = << >>
    /\ scan = << >>
    /\ replayStatus = [c \in Range(CHANNELS) |-> "none"]
    /\ scanCount = [c \in Range(CHANNELS) |-> 0]
    /\ sheetRows = [s \in Range(CREDENTIALS_FILES) |-> << >>]
    /\ rowSrc = [s \in Range(CREDENTIALS_FILES) |-> << >>]
    /\ appendErrors = [s \in Range(CREDENTIALS_FILES) |-> 0]
    /\ callCount = 0
    /\ lastCall = NoCall
    /\ listener = FALSE
    /\ unhandled = {}
    /\ exitReason = "running"

\* Variant: the listener is registered before the replay loop.
MainOrderListenFirst == << "start", "connect_sheets", "get_entities", "listen", "replay", "run", "done" >>

\* Variant: the channels are resolved before the sheets are connected.
MainOrderResolveFirst == << "start", "get_entities", "connect_sheets", "replay", "listen", "run", "done" >>

\* The statements of main() in program order.
MainOrder == << "start", "connect_sheets", "get_entities", "replay", "listen", "run", "done" >>
After(p) == MainOrder[(CHOOSE i \in DOMAIN MainOrder : MainOrder[i] = p) + 1]

varsStartup == << credIdx, sheets, connectLog, chanIdx, channel_entities, resolveLog >>
varsReplay == << replayIdx, history, scan, replayStatus, scanCount >>
varsSinks == << sheetRows, rowSrc, appendErrors, callCount, lastCall >>

(* --------------------------------------------------------------- startup *)
\* await client_telegram.start(): connects, or raises out of main().
TelegramStart ==
    /\ pc = "start"
    /\ \E ok \in BOOLEAN :
         IF ok THEN pc' = After("start") /\ exitReason' = exitReason
         ELSE pc' = "done" /\ exitReason' = "error"
    /\ UNCHANGED << pydantic, unhandled, varsStartup, varsReplay, varsSinks, listener >>

\* Variant: a failed connection discards the sheets connected so far.
ConnectedSheetsResetOnFailure(shs, credentials_file, ok) ==
    IF ok THEN Append(shs, credentials_file) ELSE << >>

\* One iteration of `for credentials_file in CREDENTIALS_FILES`:
\* connect_to_google_sheet returns the sheet or re-raises; main appends or skips.
ConnectedSheets(shs, credentials_file, ok) ==
    IF ok THEN Append(shs, credentials_file) ELSE shs

ConnectSheet ==
    /\ pc = "connect_sheets"
    /\ credIdx <= Len(CREDENTIALS_FILES)
    /\ \E ok \in BOOLEAN :
         /\ sheets' = ConnectedSheets(sheets, CREDENTIALS_FILES[credIdx], ok)
         /\ connectLog' = Append(connectLog, [cred |-> CREDENTIALS_FILES[credIdx], ok |-> ok])
    /\ credIdx' = credIdx + 1
    /\ UNCHANGED << pc, pydantic, unhandled, chanIdx, channel_entities, resolveLog,
                    varsReplay, varsSinks, listener, exitReason >>

\* Variant: the emptiness test is missing.
NoSheetsUnchecked(shs) == FALSE

\* `if not sheets: ... return`
NoSheets(shs) == shs = << >>

CheckSheets ==
    /\ pc = "connect_sheets"
    /\ credIdx > Len(CREDENTIALS_FILES)
    /\ IF NoSheets(sheets)
       THEN pc' = "done" /\ exitReason' = "no_sheets"
       ELSE pc' = After("connect_sheets") /\ exitReason' = exitReason
    /\ UNCHANGED << pydantic, unhandled, varsStartup, varsReplay, varsSinks, listener >>

\* Variant: a resolved entity is put at the front of the list.
ResolvedEntitiesAtFront(entities, channel, ok) ==
    IF ok THEN << channel >> \o entities ELSE entities

\* One iteration of `for channel in CHANNELS`: get_entity returns or raises.
ResolvedEntities(entities, channel, ok) ==
    IF ok THEN Append(entities, channel) ELSE entities

GetEntity ==
    /\ pc = "get_entities"
    /\ chanIdx <= Len(CHANNELS)
    /\ \E ok \in BOOLEAN :
         /\ channel_entities' = ResolvedEntities(channel_entities, CHANNELS[chanIdx], ok)
         /\ resolveLog' = Append(resolveLog, [channel |-> CHANNELS[chanIdx], ok |-> ok])
    /\ chanIdx' = chanIdx + 1
    /\ UNCHANGED << pc, pydantic, unhandled, credIdx, sheets, connectLog,
                    varsReplay, varsSinks, listener, exitReason >>

GetEntitiesDone ==
    /\ pc = "get_entities"
    /\ chanIdx > Len(CHANNELS)
    /\ pc' = After("get_entities")
    /\ UNCHANGED << pydantic, unhandled, varsStartup, varsReplay, varsSinks, listener, exitReason >>

(* ------------------------------------------------------- message handling *)
\* One call of process_message on msg (from `src`), with the collaborator's
\* answers: what invoke does, and which sheets' append_row fails.
CallResult(msg, invoke, failing) ==
    process_message(msg.message, sheets, invoke, failing, pydantic,
        [rows |-> sheetRows, errors |-> appendErrors,
         attempted |-> << >>, sheets |-> sheets])

Process(src, channel, msg, invoke, failing) ==
    LET res == CallResult(msg, invoke, failing)
        tag == [src |-> src, channel |-> channel, id |-> msg.id, date |-> msg.date]
    IN \* append_row is only called, and so can only fail, when the record is written
       /\ failing # {} => res.appended
       /\ sheetRows' = res.st.rows
       /\ appendErrors' = res.st.errors
       /\ sheets' = res.st.sheets
       /\ rowSrc' = [s \in DOMAIN rowSrc |->
                       rowSrc[s] \o [k \in 1..(Len(res.st.rows[s]) - Len(sheetRows[s])) |-> tag]]
       /\ callCount' = callCount + 1
       /\ lastCall' =
             [src |-> src, channel |-> channel, msg |-> msg, invoke |-> invoke,
              failing |-> failing, raised |-> res.raised, appended |-> res.appended,
              job_details |-> res.job_details, attempted |-> res.st.attempted,
              rowsBefore |-> [s \in DOMAIN sheetRows |-> Len(sheetRows[s])],
              errorsBefore |-> appendErrors]

(* ---------------------------------------------------------------- replay *)
\* `for entity in channel_entities`: the next entity's iter_messages begins.
ReplayBegin ==
    /\ pc = "replay"
    /\ replayIdx <= Len(channel_entities)
    /\ \E h \in Histories, atBoundary \in BOOLEAN :
         \* the run makes at most MaxCalls calls of process_message
         /\ CountText(ReplayQuery(h, atBoundary)) <= MaxCalls - callCount
         /\ history' = h
         /\ scan' = ReplayQuery(h, atBoundary)
    /\ replayStatus' = [replayStatus EXCEPT ![channel_entities[replayIdx]] = "scanning"]
    /\ scanCount' = [scanCount EXCEPT ![channel_entities[replayIdx]] = @ + 1]
    /\ pc' = "iter"
    /\ UNCHANGED << pydantic, unhandled, varsStartup, replayIdx, varsSinks, listener, exitReason >>

\* Variant: the try/except sits around the whole for loop, so an error ends
\* the replay of every remaining channel.
AbandonReplay(why) ==
    /\ replayStatus' = [replayStatus EXCEPT ![channel_entities[replayIdx]] = why]
    /\ replayIdx' = Len(channel_entities) + 1
    /\ scan' = << >>
    /\ history' = << >>
    /\ pc' = "replay"

\* What the `except Exception` around the async for does: log, next entity.
AbandonChannel(why) ==
    /\ replayStatus' = [replayStatus EXCEPT ![channel_entities[replayIdx]] = why]
    /\ replayIdx' = replayIdx + 1
    /\ scan' = << >>
    /\ history' = << >>
    /\ pc' = "replay"

\* The async for yields msg: `if msg.message: process_message(...)`.
ReplayNext ==
    /\ pc = "iter"
    /\ scan # << >>
    /\ LET msg == Head(scan) IN
       IF Truthy(msg.message)
       THEN \E invoke \in InvokeOutcomes, failing \in SUBSET Range(sheets) :
              /\ Process("replay", channel_entities[replayIdx], msg, invoke, failing)
              /\ IF CallResult(msg, invoke, failing).raised
                 THEN AbandonChannel("process_error")
                 ELSE /\ scan' = Tail(scan)
                      /\ UNCHANGED << pc, replayIdx, replayStatus, history >>
       ELSE /\ scan' = Tail(scan)
            /\ UNCHANGED << pc, replayIdx, replayStatus, history, sheets, varsSinks >>
    /\ UNCHANGED << pydantic, unhandled, credIdx, connectLog, chanIdx, channel_entities,
                    resolveLog, scanCount, listener, exitReason >>

\* iter_messages raises while fetching.
ReplayFetchError ==
    /\ pc = "iter"
    /\ AbandonChannel("fetch_error")
    /\ UNCHANGED << pydantic, unhandled, varsStartup, scanCount, varsSinks, listener, exitReason >>

\* iter_messages is exhausted.
ReplayEnd ==
    /\ pc = "iter"
    /\ scan = << >>
    /\ replayStatus' = [replayStatus EXCEPT ![channel_entities[replayIdx]] = "completed"]
    /\ replayIdx' = replayIdx + 1
    /\ history' = << >>
    /\ pc' = "replay"
    /\ UNCHANGED << pydantic, unhandled, varsStartup, scan, scanCount, varsSinks, listener, exitReason >>

ReplayDone ==
    /\ pc = "replay"
    /\ replayIdx > Len(channel_entities)
    /\ pc' = After("replay")
    /\ UNCHANGED << pydantic, unhandled, varsStartup, varsReplay, varsSinks, listener, exitReason >>

\* A text message dated today is posted on a resolved channel whose
\* iter_messages loop is over, while main() awaits a later channel's
\* iter_messages and add_event_handler has not run yet: the event loop
\* dispatches the update, Telethon has no handler to give it to, and no call
\* of iter_messages is left to fetch it.
UpdateWithoutHandler ==
    /\ ~listener
    /\ pc = "iter"
    /\ callCount + Cardinality(unhandled) < MaxCalls
    /\ \E c \in Range(channel_entities) \ unhandled :
          /\ replayStatus[c] \in {"completed", "fetch_error", "process_error"}
          /\ unhandled' = unhandled \cup {c}
    /\ UNCHANGED << pc, pydantic, varsStartup, varsReplay, varsSinks, listener, exitReason >>

(* ------------------------------------------------------------------ live *)
\* @client_telegram.on(events.NewMessage(chats=channel_entities))
RegisterListener ==
    /\ pc = "listen"
    /\ listener' = TRUE
    /\ pc' = After("listen")
    /\ UNCHANGED << pydantic, unhandled, varsStartup, varsReplay, varsSinks, exitReason >>

\* Variant: handlers still run after main() has been left.
AwaitPointsAfterExit == {"get_entities", "iter", "run", "done"}

\* main() is suspended in an await: the event loop may run a handler.
AwaitPoints == {"get_entities", "iter", "run"}

\* new_message_listener -> handle_new_message -> process_message(event.raw_text).
\* An exception leaving the handler is logged by Telethon; main() goes on.
NewMessage ==
    /\ listener
    /\ pc \in AwaitPoints
    /\ callCount < MaxCalls
    /\ \E channel \in Range(channel_entities), text \in Texts,
          invoke \in InvokeOutcomes, failing \in SUBSET Range(sheets) :
         Process("live", channel, [id |-> 0, date |-> LiveDate, message |-> text],
                 invoke, failing)
    /\ UNCHANGED << pc, pydantic, unhandled, credIdx, connectLog, chanIdx, channel_entities,
                    resolveLog, varsReplay, listener, exitReason >>

\* run_until_disconnected() returns: main() ends.
Disconnect ==
    /\ pc = "run"
    /\ pc' = After("run")
    /\ exitReason' = "disconnected"
    /\ UNCHANGED << pydantic, unhandled, varsStartup, varsReplay, varsSinks, listener >>

\* KeyboardInterrupt reaches asyncio.run at any moment: "Program terminated by user."
Interrupt ==
    /\ pc # "done"
    /\ pc' = "done"
    /\ exitReason' = "interrupted"
    /\ UNCHANGED << pydantic, unhandled, varsStartup, varsReplay, varsSinks, listener >>

Next ==
    \/ TelegramStart
    \/ ConnectSheet
    \/ CheckSheets
    \/ GetEntity
    \/ GetEntitiesDone
    \/ ReplayBegin
    \/ ReplayNext
    \/ ReplayFetchError
    \/ ReplayEnd
    \/ ReplayDone
    \/ UpdateWithoutHandler
    \/ RegisterListener
    \/ NewMessage
    \/ Disconnect
    \/ Interrupt

Spec == Init /\ [][Next]_vars

(* ================================================================ claims *)
Creds == Range(CREDENTIALS_FILES)
Chans == Range(CHANNELS)
Called == callCount > 0
\* A field counts as empty when it is the empty string or absent.
NonEmpty(v) == v # "" /\ v # None

\* C1: extract_job_details never raises; when the collaborator raised, the call
\* returned the all-empty sentinel (none of the six fields holds a value).
C1_ExtractNeverRaises ==
    (Called /\ lastCall.invoke.raised) =>
        /\ ~lastCall.raised
        /\ \A k \in 1..6 : ~NonEmpty(RowOf(lastCall.job_details)[k])

\* C2: one call of append_to_google_sheets appends exactly one row (the
\* record's) to every sheet whose append_row does not fail, wherever it stands
\* in the list, logs exactly one failure for every failing sheet, attempts
\* every sheet once and returns normally.
C2_FanoutIsolation ==
    (Called /\ lastCall.appended) =>
        /\ ~lastCall.raised
        /\ Len(lastCall.attempted) = Len(sheets)
        /\ \A s \in Range(sheets) :
             /\ Cardinality({i \in DOMAIN lastCall.attempted : lastCall.attempted[i] = s}) = 1
             /\ IF s \in lastCall.failing
                THEN /\ Len(sheetRows[s]) = lastCall.rowsBefore[s]
                     /\ appendErrors[s] = lastCall.errorsBefore[s] + 1
                ELSE /\ Len(sheetRows[s]) = lastCall.rowsBefore[s] + 1
                     /\ sheetRows[s][Len(sheetRows[s])] = RowOf(lastCall.job_details)
                     /\ appendErrors[s] = lastCall.errorsBefore[s]

\* A call whose first sheet failed and whose second sheet still got its row.
C2_Witness ==
    /\ Called /\ lastCall.appended
    /\ Len(sheets) >= 2
    /\ lastCall.failing = {sheets[1]}
    /\ Len(sheetRows[sheets[2]]) = lastCall.rowsBefore[sheets[2]] + 1
    /\ appendErrors[sheets[1]] = lastCall.errorsBefore[sheets[1]] + 1

\* C3: process_message writes to the sinks iff at least one of company_name,
\* job_role, ctc, application_link of the extracted record is non-empty; no
\* sheet ever holds a row whose four designated fields are all empty.
C3_WriteIffPresent ==
    /\ (Called /\ ~lastCall.raised) =>
          (lastCall.appended <=>
              \/ NonEmpty(lastCall.job_details.company_name)
              \/ NonEmpty(lastCall.job_details.job_role)
              \/ NonEmpty(lastCall.job_details.ctc)
              \/ NonEmpty(lastCall.job_details.application_link))
    /\ (Called /\ ~lastCall.appended) =>
          \A s \in Creds : /\ Len(sheetRows[s]) = lastCall.rowsBefore[s]
                           /\ appendErrors[s] = lastCall.errorsBefore[s]
    /\ \A s \in Creds : \A i \in DOMAIN sheetRows[s] :
          \E k \in {1, 2, 3, 6} : NonEmpty(sheetRows[s][i][k])

\* A record with only years_of_experience and passout_year set was dropped,
\* after an earlier record with only ctc set was written.
C3_Witness ==
    /\ Called /\ ~lastCall.raised /\ ~lastCall.appended
    /\ NonEmpty(lastCall.job_details.years_of_experience)
    /\ \E s \in Creds : \E i \in DOMAIN sheetRows[s] :
          /\ NonEmpty(sheetRows[s][i][3])
          /\ \A k \in {1, 2, 6} : ~NonEmpty(sheetRows[s][i][k])

\* C4: when every sheet connection failed, main() ends right after the
\* connection loop: no channel is replayed, no message is extracted, no
\* listener is registered and no sheet is written.
C4_NoSheetsStops ==
    (credIdx > Len(CREDENTIALS_FILES) /\ \A i \in DOMAIN connectLog : ~connectLog[i].ok) =>
        /\ pc \in {"connect_sheets", "done"}
        /\ pc = "done" => exitReason \in {"no_sheets", "interrupted"}
        /\ \A c \in Chans : replayStatus[c] = "none" /\ scanCount[c] = 0
        /\ callCount = 0
        /\ ~listener
        /\ \A s \in Creds : sheetRows[s] = << >>

C4_Witness ==
    /\ exitReason = "no_sheets" /\ pc = "done"
    /\ Len(connectLog) = Len(CREDENTIALS_FILES)

\* C5: the listener is registered only after the replay loop has ended for
\* every resolved channel, and no live message is processed before that.
ReplayOver ==
    /\ replayIdx > Len(channel_entities)
    /\ \A c \in Range(channel_entities) :
          replayStatus[c] \in {"completed", "fetch_error", "process_error"}

C5_BackfillBeforeLive ==
    /\ listener => (ReplayOver /\ pc \in {"run", "done"})
    /\ (Called /\ lastCall.src = "live") => (listener /\ ReplayOver)
    /\ \A s \in Creds : \A i \in DOMAIN rowSrc[s] :
          rowSrc[s][i].src = "live" => ReplayOver

\* A live message was processed after a replayed message had been written.
C5_Witness ==
    /\ Called /\ lastCall.src = "live"
    /\ \E s \in Creds : \E i \in DOMAIN rowSrc[s] : rowSrc[s][i].src = "replay"

\* C6: within one channel the replay hands on messages oldest first, and only
\* messages dated at or after start_of_day; so in every sheet the rows written
\* from one channel's replay stand in the order of their messages' dates.
C6_ReplayChronological ==
    /\ pc = "iter" =>
          /\ \A i \in DOMAIN scan : scan[i].date >= start_of_day
          /\ \A i, j \in DOMAIN scan :
                i < j => (scan[i].id < scan[j].id /\ scan[i].date <= scan[j].date)
          /\ (Called /\ lastCall.src = "replay" /\ scan # << >>
                /\ lastCall.channel = channel_entities[replayIdx]) =>
                (lastCall.msg.id < Head(scan).id /\ lastCall.msg.date <= Head(scan).date)
    /\ (Called /\ lastCall.src = "replay") => lastCall.msg.date >= start_of_day
    /\ \A s \in Creds : \A i, j \in DOMAIN rowSrc[s] :
          LET a == rowSrc[s][i]
              b == rowSrc[s][j]
          IN /\ a.src = "replay" => a.date >= start_of_day
             /\ (i < j /\ a.src = "replay" /\ b.src = "replay" /\ a.channel = b.channel) =>
                   (a.id < b.id /\ a.date <= b.date)

\* A sheet holds two rows replayed from one channel, the earlier message first.
C6_Witness ==
    \E s \in Creds : \E i, j \in DOMAIN rowSrc[s] :
        /\ i < j
        /\ rowSrc[s][i].src = "replay" /\ rowSrc[s][j].src = "replay"
        /\ rowSrc[s][i].channel = rowSrc[s][j].channel
        /\ rowSrc[s][i].date < rowSrc[s][j].date

\* C7: a fetch error ends only the replay of the channel it hit: the rows
\* written so far stay, no channel is scanned twice, the loop goes on with the
\* next resolved channel, every resolved channel has been replayed when the
\* listener is registered, and main() goes on to the live phase.
Replayed == {"completed", "fetch_error", "process_error"}

C7_State ==
    /\ \A c \in Chans : scanCount[c] <= 1 /\ (scanCount[c] = 0 <=> replayStatus[c] = "none")
    /\ \A i \in DOMAIN channel_entities :
          /\ i < replayIdx => replayStatus[channel_entities[i]] \in Replayed
          /\ i = replayIdx => replayStatus[channel_entities[i]] \in {"none", "scanning"}
          /\ i > replayIdx => replayStatus[channel_entities[i]] = "none"
    /\ pc \in {"listen", "run"} =>
          \A c \in Range(channel_entities) : replayStatus[c] \in Replayed
    /\ (\E c \in Chans : replayStatus[c] = "fetch_error") =>
          exitReason \in {"running", "disconnected", "interrupted"}

C7_Step ==
    (\E c \in Chans : replayStatus[c] # "fetch_error" /\ replayStatus'[c] = "fetch_error") =>
        /\ sheetRows' = sheetRows
        /\ appendErrors' = appendErrors
        /\ replayIdx' = replayIdx + 1
        /\ pc' = "replay"
        /\ exitReason' = exitReason
        /\ \A c \in Chans : replayStatus'[c] # replayStatus[c] => c = channel_entities[replayIdx]

C7_FetchErrorIsolated == []C7_State /\ [][C7_Step]_vars

\* The first channel's replay hit a fetch error after one of its messages had
\* been written; the second channel was replayed to the end and its message
\* written; main() is in the live phase.
C7_Witness ==
    /\ pc = "run"
    /\ Len(channel_entities) = 2
    /\ replayStatus[channel_entities[1]] = "fetch_error"
    /\ replayStatus[channel_entities[2]] = "completed"
    /\ \E s \in Creds : \E i, j \in DOMAIN rowSrc[s] :
          /\ rowSrc[s][i].src = "replay" /\ rowSrc[s][i].channel = channel_entities[1]
          /\ rowSrc[s][j].src = "replay" /\ rowSrc[s][j].channel = channel_entities[2]

\* The credentials whose connection succeeded, in configuration order.
ConnectedCreds ==
    SelectSeq(CREDENTIALS_FILES,
              LAMBDA c : \E i \in DOMAIN connectLog : connectLog[i].cred = c /\ connectLog[i].ok)

\* C8: once the connection loop is over the list of sheets never changes; a
\* sheet whose append failed for one record is attempted for every later one.
C8_State ==
    /\ credIdx > Len(CREDENTIALS_FILES) => sheets = ConnectedCreds
    /\ (Called /\ lastCall.appended) => lastCall.attempted = ConnectedCreds

C8_Step == credIdx > Len(CREDENTIALS_FILES) => sheets' = sheets

C8_SheetsFrozen == []C8_State /\ [][C8_Step]_vars

\* A sheet that failed for an earlier record received the latest one.
C8_Witness ==
    /\ Called /\ lastCall.appended
    /\ \E s \in Range(sheets) :
          /\ lastCall.errorsBefore[s] >= 1
          /\ s \notin lastCall.failing
          /\ Len(sheetRows[s]) = lastCall.rowsBefore[s] + 1

\* C9: every configured channel is resolved on its own; a failure drops that
\* channel and never ends the run; channel_entities is the list of the channels
\* that resolved, in configuration order (possibly empty).
C9_ResolutionIndependent ==
    /\ Len(resolveLog) = chanIdx - 1
    /\ \A i \in DOMAIN resolveLog : resolveLog[i].channel = CHANNELS[i]
    /\ channel_entities =
          SelectSeq(CHANNELS,
                    LAMBDA c : \E i \in DOMAIN resolveLog :
                                  resolveLog[i].channel = c /\ resolveLog[i].ok)
    /\ pc \in {"replay", "iter", "listen", "run"} => Len(resolveLog) = Len(CHANNELS)
    /\ (\E i \in DOMAIN resolveLog : ~resolveLog[i].ok) =>
          exitReason \in {"running", "disconnected", "interrupted"}

\* The first channel failed to resolve, the second resolved and was replayed.
C9_Witness ==
    /\ Len(resolveLog) = Len(CHANNELS)
    /\ ~resolveLog[1].ok /\ resolveLog[2].ok
    /\ channel_entities = << CHANNELS[2] >>
    /\ replayStatus[CHANNELS[2]] = "completed"
    /\ pc = "run"

\* C10: each credential is attempted exactly once, in order; a failed one is
\* dropped without stopping the loop and is not retried; `sheets` is exactly
\* the list of sheets that connected; main() goes on iff at least one did.
C10_ConnectOnce ==
    /\ Len(connectLog) = credIdx - 1
    /\ Len(connectLog) <= Len(CREDENTIALS_FILES)
    /\ \A i \in DOMAIN connectLog : connectLog[i].cred = CREDENTIALS_FILES[i]
    /\ sheets = ConnectedCreds
    /\ pc \notin {"start", "connect_sheets", "done"} =>
          (Len(connectLog) = Len(CREDENTIALS_FILES) /\ sheets # << >>)
    /\ exitReason = "no_sheets" =>
          (Len(connectLog) = Len(CREDENTIALS_FILES) /\ \A i \in DOMAIN connectLog : ~connectLog[i].ok)

\* The first credential failed, the second connected, and a row was written
\* to the second sheet.
C10_Witness ==
    /\ Len(connectLog) = 2
    /\ ~connectLog[1].ok /\ connectLog[2].ok
    /\ sheets = << CREDENTIALS_FILES[2] >>
    /\ sheetRows[CREDENTIALS_FILES[2]] # << >>

\* C11: every text handed to extraction is non-empty, on the replay path and
\* on the live path alike.
C11_TextNonEmpty ==
    Called => lastCall.msg.message # ""

\* The all-empty sentinel: every one of the six fields is the empty string.
Sentinel == JobDetails("", "", "", "", "", "")

\* C12: every record extract_job_details returns is either the all-empty
\* sentinel or has at least one of the four designated fields non-empty.
C12_ReturnedRecordInvariant ==
    (Called /\ ~lastCall.raised) =>
        \/ lastCall.job_details = Sentinel
        \/ NonEmpty(lastCall.job_details.company_name)
        \/ NonEmpty(lastCall.job_details.job_role)
        \/ NonEmpty(lastCall.job_details.ctc)
        \/ NonEmpty(lastCall.job_details.application_link)

\* The lifecycle state main() is in at program point p: Starting up to the
\* end of the startup loops, Backfilling during the replay loop, Live from the
\* listener registration on, Stopped once main() has been left.
Lifecycle(p) ==
    CASE p \in {"start", "connect_sheets", "get_entities"} -> "Starting"
      [] p \in {"replay", "iter"} -> "Backfilling"
      [] p \in {"listen", "run"} -> "Live"
      [] p = "done" -> "Stopped"
LifecycleOrder == << "Starting", "Backfilling", "Live", "Stopped" >>
LifecycleRank(l) == CHOOSE i \in DOMAIN LifecycleOrder : LifecycleOrder[i] = l

C13_Step ==
    /\ LifecycleRank(Lifecycle(pc')) >= LifecycleRank(Lifecycle(pc))
    /\ pc = "done" => UNCHANGED vars

\* C13: the lifecycle only moves forward along Starting, Backfilling, Live,
\* Stopped: no step returns to an earlier state, and nothing happens once
\* Stopped is reached.
C13_LifecycleForward == [][C13_Step]_vars

\* A run that went through all four states: a channel was replayed, a live
\* message was handled, and the client disconnected.
C13_Witness ==
    /\ pc = "done"
    /\ exitReason = "disconnected"
    /\ \E c \in Chans : replayStatus[c] = "completed"
    /\ listener
    /\ Called /\ lastCall.src = "live"

\* C14: a record that passes validation is appended to each sheet that takes
\* the write as exactly one row of six cells, in the order company_name,
\* job_role, ctc, years_of_experience, passout_year, application_link, each
\* cell holding the value the collaborator returned for that field.
C14_RowLayout ==
    (Called /\ lastCall.appended) =>
        \A i \in DOMAIN lastCall.attempted :
            LET s == lastCall.attempted[i]
                row == sheetRows[s][Len(sheetRows[s])]
                jd == lastCall.invoke.value
            IN s \notin lastCall.failing =>
                /\ Len(sheetRows[s]) = lastCall.rowsBefore[s] + 1
                /\ Len(row) = 6
                /\ row[1] = jd.company_name
                /\ row[2] = jd.job_role
                /\ row[3] = jd.ctc
                /\ row[4] = jd.years_of_experience
                /\ row[5] = jd.passout_year
                /\ row[6] = jd.application_link

\* A record with six distinct values was written to a sheet.
C14_Witness ==
    /\ Called /\ lastCall.appended
    /\ lastCall.invoke.value = JobDetails("Acme Corp", "SDE", "12 LPA", "2 years", "2024", "acme.co/jobs")
    /\ \E s \in Creds :
          /\ s \notin lastCall.failing
          /\ sheetRows[s] # << >>
          /\ sheetRows[s][Len(sheetRows[s])] =
                << "Acme Corp", "SDE", "12 LPA", "2 years", "2024", "acme.co/jobs" >>

\* C15: every non-empty message posted today on a resolved channel whose
\* replay had no fetch error is processed before the program stops: when the
\* run ends, no such channel has a message that no call ever handled.
C15_NoMessageLost ==
    (pc = "done" /\ exitReason = "disconnected") =>
        \A c \in unhandled : replayStatus[c] # "completed"

\* A replay call on which the collaborator failed while iter_messages still
\* had later messages of the same channel to yield.
C16_FailedReplayCall ==
    /\ callCount' = callCount + 1
    /\ lastCall'.src = "replay"
    /\ lastCall'.invoke.raised
    /\ Len(scan) >= 2

C16_Step ==
    C16_FailedReplayCall =>
        /\ sheetRows' = sheetRows
        /\ scan' = Tail(scan)
        /\ replayStatus' = replayStatus
        /\ pc' = pc

\* C16: a collaborator failure on a replayed message writes nothing to any
\* sheet and does not stop the replay: the loop goes on with the later
\* messages of the same channel.
C16_ExtractionFailureIsolated == [][C16_Step]_vars

\* The channels are replayed one at a time, in the order of channel_entities.
C17_State ==
    /\ Cardinality({c \in Chans : replayStatus[c] = "scanning"}) <= 1
    /\ pc = "iter" => replayStatus[channel_entities[replayIdx]] = "scanning"
    /\ \A i, j \in DOMAIN channel_entities :
          (i < j /\ replayStatus[channel_entities[j]] # "none") =>
              replayStatus[channel_entities[i]] \notin {"none", "scanning"}

\* One step handles at most one message, from extraction to the last sheet
\* write; its row goes after every row written by the calls before it.
C17_Step ==
    /\ callCount' \in {callCount, callCount + 1}
    /\ callCount' = callCount => (sheetRows' = sheetRows /\ appendErrors' = appendErrors)
    /\ callCount' = callCount + 1 =>
          \A s \in Creds :
              \/ sheetRows'[s] = sheetRows[s]
              \/ sheetRows'[s] = Append(sheetRows[s], RowOf(lastCall'.job_details))

\* C17: messages are processed one at a time, each one's extraction,
\* validation and sheet writes finishing before the next message starts; the
\* rows of every sheet are in processing order; channels are replayed strictly
\* one after another.
C17_Sequential == []C17_State /\ [][C17_Step]_vars

\* A replayed message and then a live message each wrote a different row to
\* the same sheet, and both channels were replayed.
C17_Witness ==
    /\ \E s \in Creds :
          /\ Len(sheetRows[s]) = 2
          /\ rowSrc[s][1].src = "replay" /\ rowSrc[s][2].src = "live"
          /\ sheetRows[s][1] # sheetRows[s][2]
    /\ Len(channel_entities) = 2
    /\ \A c \in Chans : replayStatus[c] = "completed"

\* While main() waits in run_until_disconnected the listener stays registered
\* and the only way out is the exit; once main() has been left nothing moves.
C18_Step ==
    /\ pc = "run" =>
          /\ listener /\ listener'
          /\ pc' \in {"run", "done"}
          /\ pc' = "done" => exitReason' \in {"disconnected", "interrupted"}
    /\ pc = "done" =>
          /\ pc' = "done"
          /\ callCount' = callCount
          /\ sheetRows' = sheetRows
          /\ exitReason' = exitReason

\* C18: once Live the program stays subscribed until the operator interrupts
\* it or the transport disconnects; on either it reaches Stopped, does not
\* start again and processes no message afterwards.
C18_LiveUntilStopped == [][C18_Step]_vars

\* A live message was handled, then the client disconnected and main() ended
\* with the listener never removed.
C18_Witness ==
    /\ pc = "done"
    /\ exitReason = "disconnected"
    /\ listener
    /\ Called /\ lastCall.src = "live" /\ lastCall.appended

\* C19: startup resolves all channels first and connects the sheets after
\* that, then replays; the channels are resolved even in a run that stops for
\* lack of sheets.
C19_ResolveThenConnect ==
    /\ connectLog # << >> => Len(resolveLog) = Len(CHANNELS)
    /\ exitReason = "no_sheets" => Len(resolveLog) = Len(CHANNELS)
    /\ \A c \in Chans : scanCount[c] > 0 =>
          (Len(resolveLog) = Len(CHANNELS) /\ Len(connectLog) = Len(CREDENTIALS_FILES))

\* C19 as the code has it: startup connects every sheet first and resolves the
\* channels after that, only when a sheet connected, then replays; a run that
\* stops for lack of sheets resolves no channel.
C19_ConnectThenResolve ==
    /\ resolveLog # << >> =>
          (Len(connectLog) = Len(CREDENTIALS_FILES) /\ sheets # << >>)
    /\ exitReason = "no_sheets" => resolveLog = << >>
    /\ \A c \in Chans : scanCount[c] > 0 =>
          (Len(resolveLog) = Len(CHANNELS) /\ Len(connectLog) = Len(CREDENTIALS_FILES))

\* Every sheet connection and every channel resolution was attempted, and a
\* channel's replay has begun.
C19_Witness ==
    /\ Len(connectLog) = Len(CREDENTIALS_FILES)
    /\ Len(resolveLog) = Len(CHANNELS)
    /\ \E c \in Chans : scanCount[c] > 0

====
